---- MODULE Spec2Model ----
(***************************************************************************)
(* Model of interpol-rs/src/mpi_events/collectives/mpi_ibcast.rs:          *)
(* the MpiIbcast event record, its derived builder and serde encoding,     *)
(* and Register::register, which appends the record to the event log       *)
(* (a Vec<Box<dyn Register>>) after a fallible capacity reservation.       *)
(*                                                                         *)
(* Option<T> is modelled as a sequence: <<>> is None, <<x>> is Some(x).    *)
(* The allocator is a storage layer that rejects any request for a         *)
(* capacity above `ceiling` elements.                                      *)
(***************************************************************************)
EXTENDS Integers, Sequences, FiniteSets, TLC

VARIABLES
    events,      \* the event log: Vec<Box<dyn Register>>, as a sequence
    cap,         \* events.capacity()
    ceiling,     \* largest capacity the allocator grants
    aborted,     \* the process was aborted by handle_alloc_error
    held,        \* the record the caller holds (Option)
    heldVia,     \* how the held record was made: "none", "new", "build"
    result,      \* outcome of the last register: "none", "Ok", "Err", "Abort"
    lastOp,      \* the operation that ran last
    call,        \* what the last register saw and asked for
    okArgs,      \* the records of the successful registers, in call order
    builder,     \* MpiIbcastBuilder: one Option per field
    supplied,    \* per field, the last value a setter was called with (Option)
    built,       \* outcome of build(), until the next setter call (Option)
    lastSet,     \* the field whose setter was called last (Option)
    wire,        \* the encoding produced by the last serialization
    encodedFrom, \* the record that was serialized into wire (Option)
    decoded,     \* outcome of deserializing wire (Option)
    stream,      \* the serialized event log
    streamFrom,  \* the log that was serialized into stream
    decodedLog   \* outcome of the last deserialization of a log

vars == <<events, cap, ceiling, aborted, held, heldVia, result, lastOp, call,
          okArgs, builder, supplied, built, lastSet, wire, encodedFrom, decoded,
          stream, streamFrom, decodedLog>>

logVars == <<events, cap, ceiling, aborted, result, call, okArgs>>
builderVars == <<builder, supplied, built, lastSet>>
serdeVars == <<wire, encodedFrom, decoded>>
streamVars == <<stream, streamFrom, decodedLog>>

----------------------------------------------------------------------------
(* Bounds *)

MaxLen == 4          \* registers are tried on logs shorter than this
MaxCeiling == 13     \* the allocator's ceiling ranges over 0..MaxCeiling
MaxInitCap == 2      \* the log is created with a capacity in 0..MaxInitCap
MaxStream == 3       \* heterogeneous logs hold up to this many records

----------------------------------------------------------------------------
(* The record *)

\* The fields of struct MpiIbcast, in declaration order.
FieldOrder ==
    <<"current_rank", "root_rank", "nb_bytes", "comm", "req", "tsc", "duration">>

Fields == {FieldOrder[i] : i \in 1..Len(FieldOrder)}

\* A builder, or a visitor, none of whose fields has a value yet.
EmptyBuilder == [f \in Fields |-> <<>>]

\* Values the callers pass for each field: those of the tests.
FieldVals(f) ==
    CASE f = "current_rank" -> {0, 1}
      [] f = "root_rank"    -> {0, 1}
      [] f = "nb_bytes"     -> {8}
      [] f = "comm"         -> {0}
      [] f = "req"          -> {7}
      [] f = "tsc"          -> {1024}
      [] f = "duration"     -> {2048}

\* MpiIbcast::new
New(current_rank, root_rank, nb_bytes, comm, req, tsc, duration) ==
    [current_rank |-> current_rank, root_rank |-> root_rank,
     nb_bytes |-> nb_bytes, comm |-> comm, req |-> req, tsc |-> tsc,
     duration |-> duration]

\* A faulty variant of IbcastTag: the impl registers the name of another shape.
IbcastTag_Collides == "MpiSend"

\* The name typetag registers for `impl Register for MpiIbcast`.
IbcastTag == "MpiIbcast"

\* `self` of this impl's register is an MpiIbcast.
IsIbcast(rec) == DOMAIN rec = Fields

\* Box::new(self) as Box<dyn Register>: the record behind its concrete type.
Box(tag, rec) == [tag |-> tag, rec |-> rec]

----------------------------------------------------------------------------
(* Register::register *)

\* A faulty variant of Additional: the request is for len more elements.
Additional_Len(len) == len

\* The argument of try_reserve_exact: 2 * events.len(). (The product cannot
\* overflow usize: a Vec of 16-byte boxes holds fewer than 2^59 elements.)
Additional(len) == 2 * len

\* Vec::try_reserve_exact(additional): nothing to do when the spare capacity
\* suffices, otherwise grow to exactly len + additional, which the allocator
\* may refuse.
TryReserveExact(c, len, additional, limit) ==
    IF c - len >= additional
    THEN [ok |-> TRUE, cap |-> c]
    ELSE IF len + additional > limit
         THEN [ok |-> FALSE, cap |-> c]
         ELSE [ok |-> TRUE, cap |-> len + additional]

Max(a, b) == IF a >= b THEN a ELSE b

\* Vec::push on a full vector grows it (amortized: the double of the capacity,
\* at least len + 1, at least 4 for elements of this size); the allocation is
\* infallible, so a refusal aborts the process.
PushCap(c, len, limit) ==
    IF len < c
    THEN [grew |-> FALSE, ok |-> TRUE, cap |-> c]
    ELSE LET want == Max(4, Max(2 * c, len + 1))
         IN  [grew |-> TRUE, ok |-> want <= limit, cap |-> want]

\* A faulty variant of Pushed: the new element is put in front.
Pushed_InFront(log, elem) == <<elem>> \o log

\* The contents of the vector after push(elem).
Pushed(log, elem) == Append(log, elem)

\* What register sees and asks for.
Seen(rec) ==
    [events |-> events, cap |-> cap, rec |-> rec,
     additional |-> Additional(Len(events)), grew |-> FALSE]

Reserved == TryReserveExact(cap, Len(events), Additional(Len(events)), ceiling)

CanRegister ==
    ~aborted /\ held # <<>> /\ IsIbcast(held[1]) /\ Len(events) < MaxLen

\* A faulty variant of RegisterErr: the record is pushed although the reservation failed.
RegisterErr_Pushes ==
    /\ CanRegister
    /\ ~Reserved.ok
    /\ events' = Pushed(events, Box(IbcastTag, held[1]))
    /\ result' = "Err"
    /\ call' = Seen(held[1])
    /\ held' = <<>>
    /\ lastOp' = "register"
    /\ UNCHANGED <<cap, ceiling, aborted, okArgs>>
    /\ heldVia' = "none"
    /\ UNCHANGED <<builderVars, serdeVars, streamVars>>

\* A faulty variant of RegisterErr: the caller keeps the record.
RegisterErr_KeepsRecord ==
    /\ CanRegister
    /\ ~Reserved.ok
    /\ result' = "Err"
    /\ call' = Seen(held[1])
    /\ lastOp' = "register"
    /\ UNCHANGED <<held, heldVia, events, cap, ceiling, aborted, okArgs>>
    /\ UNCHANGED <<builderVars, serdeVars, streamVars>>

\* register, the reservation fails: `?` returns the TryReserveError; self was
\* moved into the call and is dropped.
RegisterErr ==
    /\ CanRegister
    /\ ~Reserved.ok
    /\ result' = "Err"
    /\ call' = Seen(held[1])
    /\ held' = <<>>
    /\ lastOp' = "register"
    /\ UNCHANGED <<events, cap, ceiling, aborted, okArgs>>
    /\ heldVia' = "none"
    /\ UNCHANGED <<builderVars, serdeVars, streamVars>>

\* register, the reservation succeeds and the push finds or gets its room.
RegisterOk ==
    /\ CanRegister
    /\ Reserved.ok
    /\ LET p == PushCap(Reserved.cap, Len(events), ceiling)
       IN  /\ p.ok
           /\ cap' = p.cap
           /\ call' = [Seen(held[1]) EXCEPT !.grew = p.grew]
    /\ events' = Pushed(events, Box(IbcastTag, held[1]))
    /\ okArgs' = Append(okArgs, held[1])
    /\ result' = "Ok"
    /\ held' = <<>>
    /\ lastOp' = "register"
    /\ UNCHANGED <<ceiling, aborted>>
    /\ heldVia' = "none"
    /\ UNCHANGED <<builderVars, serdeVars, streamVars>>

\* register, the reservation succeeds but the push must allocate and the
\* allocator refuses: handle_alloc_error aborts the process.
RegisterAbort ==
    /\ CanRegister
    /\ Reserved.ok
    /\ LET p == PushCap(Reserved.cap, Len(events), ceiling)
       IN  /\ ~p.ok
           /\ call' = [Seen(held[1]) EXCEPT !.grew = p.grew]
    /\ aborted' = TRUE
    /\ result' = "Abort"
    /\ held' = <<>>
    /\ lastOp' = "register"
    /\ UNCHANGED <<events, cap, ceiling, okArgs>>
    /\ heldVia' = "none"
    /\ UNCHANGED <<builderVars, serdeVars, streamVars>>

\* The caller constructs a record with MpiIbcast::new and holds it, in place
\* of the record it held.
CallNew ==
    /\ ~aborted
    /\ \E cr \in FieldVals("current_rank"), rr \in FieldVals("root_rank"),
          nb \in FieldVals("nb_bytes"), cm \in FieldVals("comm"),
          rq \in FieldVals("req"), ts \in FieldVals("tsc"),
          du \in FieldVals("duration") :
            held' = <<New(cr, rr, nb, cm, rq, ts, du)>>
    /\ heldVia' = "new"
    /\ lastOp' = "new"
    /\ UNCHANGED <<logVars, builderVars, serdeVars, streamVars>>

----------------------------------------------------------------------------
(* MpiIbcastBuilder, generated by #[derive(Builder)] *)

\* A faulty variant of SetField: a field that already has a value keeps it.
SetField_KeepsFirst(b, f, v) ==
    IF b[f] = <<>> THEN [b EXCEPT ![f] = <<v>>] ELSE b

\* A setter, e.g. MpiIbcastBuilder::root_rank(v): stores Some(v) in its field.
SetField(b, f, v) == [b EXCEPT ![f] = <<v>>]

\* The positions, in declaration order, of the fields still None.
Missing(b) == {i \in 1..Len(FieldOrder) : b[FieldOrder[i]] = <<>>}

Least(S) == CHOOSE i \in S : \A j \in S : i <= j

\* A faulty variant of BuildOf: a missing duration defaults to 0.
BuildOf_DefaultsDuration(b) ==
    IF Missing(b) \subseteq {7}
    THEN [ok |-> TRUE,
          val |-> [current_rank |-> b.current_rank[1],
                   root_rank |-> b.root_rank[1],
                   nb_bytes |-> b.nb_bytes[1],
                   comm |-> b.comm[1],
                   req |-> b.req[1],
                   tsc |-> b.tsc[1],
                   duration |-> IF b.duration = <<>> THEN 0 ELSE b.duration[1]]]
    ELSE [ok |-> FALSE, err |-> FieldOrder[Least(Missing(b))]]

\* MpiIbcastBuilder::build: each field is cloned out of its Option, in
\* declaration order; the first None returns UninitializedField(name).
BuildOf(b) ==
    IF Missing(b) = {}
    THEN [ok |-> TRUE,
          val |-> [current_rank |-> b.current_rank[1],
                   root_rank |-> b.root_rank[1],
                   nb_bytes |-> b.nb_bytes[1],
                   comm |-> b.comm[1],
                   req |-> b.req[1],
                   tsc |-> b.tsc[1],
                   duration |-> b.duration[1]]]
    ELSE [ok |-> FALSE, err |-> FieldOrder[Least(Missing(b))]]

\* The caller calls one setter of the builder.
CallSetter ==
    /\ ~aborted
    /\ \E f \in Fields : \E v \in FieldVals(f) :
          /\ builder' = SetField(builder, f, v)
          /\ supplied' = [supplied EXCEPT ![f] = <<v>>]
          /\ lastSet' = <<f>>
    /\ built' = <<>>
    /\ lastOp' = "set"
    /\ UNCHANGED <<held, heldVia>>
    /\ UNCHANGED <<logVars, serdeVars, streamVars>>

\* The caller calls build(); on Ok it holds the record (the tests' expect), in
\* place of the record it held.
CallBuild ==
    /\ ~aborted
    /\ built' = <<BuildOf(builder)>>
    /\ held' = IF BuildOf(builder).ok THEN <<BuildOf(builder).val>> ELSE held
    /\ heldVia' = IF BuildOf(builder).ok THEN "build" ELSE heldVia
    /\ lastOp' = "build"
    /\ UNCHANGED <<builder, supplied, lastSet>>
    /\ UNCHANGED <<logVars, serdeVars, streamVars>>

----------------------------------------------------------------------------
(* Serialize and Deserialize, generated by the serde derives; the data     *)
(* format is serde_json's: an object of name/number entries, the numbers   *)
(* in decimal digits.                                                      *)

RECURSIVE Digits_DropsZeros(_)
\* A faulty variant of Digits: the digit 0 is not written after the first digit.
Digits_DropsZeros(n) ==
    IF n < 10 THEN <<n>>
    ELSE IF n % 10 = 0 THEN Digits_DropsZeros(n \div 10)
         ELSE Append(Digits_DropsZeros(n \div 10), n % 10)

RECURSIVE Digits(_)
\* The decimal digits of a non-negative integer, most significant first.
Digits(n) ==
    IF n < 10 THEN <<n>> ELSE Append(Digits(n \div 10), n % 10)

RECURSIVE Number(_)
\* The integer a sequence of decimal digits denotes.
Number(ds) ==
    IF ds = <<>> THEN 0
    ELSE 10 * Number(SubSeq(ds, 1, Len(ds) - 1)) + ds[Len(ds)]

Entry(name, n) == [name |-> name, text |-> Digits(n)]

\* A faulty variant of Serialize: duration is written before tsc.
Serialize_DurationFirst(rec) ==
    << Entry("current_rank", rec.current_rank),
       Entry("root_rank", rec.root_rank),
       Entry("nb_bytes", rec.nb_bytes),
       Entry("comm", rec.comm),
       Entry("req", rec.req),
       Entry("duration", rec.duration),
       Entry("tsc", rec.tsc) >>

\* Serialize for MpiIbcast: serialize_struct, one field after the other in
\* declaration order.
Serialize(rec) ==
    << Entry("current_rank", rec.current_rank),
       Entry("root_rank", rec.root_rank),
       Entry("nb_bytes", rec.nb_bytes),
       Entry("comm", rec.comm),
       Entry("req", rec.req),
       Entry("tsc", rec.tsc),
       Entry("duration", rec.duration) >>

RECURSIVE VisitMap(_, _, _)
\* Deserialize for MpiIbcast, visit_map: each entry is matched by name; an
\* unknown name is skipped, a repeated one is an error.
VisitMap(entries, i, acc) ==
    IF i > Len(entries) THEN [ok |-> TRUE, acc |-> acc]
    ELSE LET e == entries[i]
         IN  IF e.name \notin Fields THEN VisitMap(entries, i + 1, acc)
             ELSE IF acc[e.name] # <<>>
                  THEN [ok |-> FALSE, err |-> "duplicate field"]
                  ELSE VisitMap(entries, i + 1,
                                [acc EXCEPT ![e.name] = <<Number(e.text)>>])

\* Deserialize for MpiIbcast: the record of the visited entries, or an
\* error when a field is missing.
Deserialize(entries) ==
    LET v == VisitMap(entries, 1, EmptyBuilder)
    IN  IF ~v.ok THEN [ok |-> FALSE, err |-> v.err]
        ELSE IF Missing(v.acc) # {} THEN [ok |-> FALSE, err |-> "missing field"]
        ELSE [ok |-> TRUE,
              val |-> [current_rank |-> v.acc.current_rank[1],
                       root_rank |-> v.acc.root_rank[1],
                       nb_bytes |-> v.acc.nb_bytes[1],
                       comm |-> v.acc.comm[1],
                       req |-> v.acc.req[1],
                       tsc |-> v.acc.tsc[1],
                       duration |-> v.acc.duration[1]]]

\* serde_json::to_string(&record)
CallSerialize ==
    /\ ~aborted
    /\ held # <<>>
    /\ wire' = Serialize(held[1])
    /\ encodedFrom' = held
    /\ decoded' = <<>>
    /\ lastOp' = "serialize"
    /\ UNCHANGED <<held, heldVia>>
    /\ UNCHANGED <<logVars, builderVars, streamVars>>

\* serde_json::from_str::<MpiIbcast>(&serialized)
CallDeserialize ==
    /\ ~aborted
    /\ wire # <<>>
    /\ decoded' = <<Deserialize(wire)>>
    /\ lastOp' = "deserialize"
    /\ UNCHANGED <<wire, encodedFrom, held, heldVia>>
    /\ UNCHANGED <<logVars, builderVars, streamVars>>

----------------------------------------------------------------------------
(* The heterogeneous log: a second record shape and the type-tagged        *)
(* encoding of Box<dyn Register>. Only MpiIbcast and its typetag           *)
(* attribute are in the file modelled above; the Register trait and the    *)
(* other shapes are modelled from the specification, which names a send    *)
(* event and gives every shape the same contract.                          *)

SendTag == "MpiSend"

SendOrder == <<"current_rank", "nb_bytes", "tsc">>

SendFields == {SendOrder[i] : i \in 1..Len(SendOrder)}

IsSend(rec) == DOMAIN rec = SendFields

NewSend(current_rank, nb_bytes, tsc) ==
    [current_rank |-> current_rank, nb_bytes |-> nb_bytes, tsc |-> tsc]

SerializeSend(rec) ==
    << Entry("current_rank", rec.current_rank),
       Entry("nb_bytes", rec.nb_bytes),
       Entry("tsc", rec.tsc) >>

RECURSIVE VisitSend(_, _, _)
VisitSend(entries, i, acc) ==
    IF i > Len(entries) THEN [ok |-> TRUE, acc |-> acc]
    ELSE LET e == entries[i]
         IN  IF e.name \notin SendFields THEN VisitSend(entries, i + 1, acc)
             ELSE IF acc[e.name] # <<>>
                  THEN [ok |-> FALSE, err |-> "duplicate field"]
                  ELSE VisitSend(entries, i + 1,
                                 [acc EXCEPT ![e.name] = <<Number(e.text)>>])

DeserializeSend(entries) ==
    LET v == VisitSend(entries, 1, [f \in SendFields |-> <<>>])
    IN  IF ~v.ok THEN [ok |-> FALSE, err |-> v.err]
        ELSE IF \E f \in SendFields : v.acc[f] = <<>>
             THEN [ok |-> FALSE, err |-> "missing field"]
        ELSE [ok |-> TRUE,
              val |-> NewSend(v.acc.current_rank[1], v.acc.nb_bytes[1],
                              v.acc.tsc[1])]

\* Serialize for dyn Register: the registered name of the concrete type,
\* then the concrete type's own encoding.
SerializeDyn(box) ==
    [tag |-> box.tag,
     body |-> IF IsIbcast(box.rec) THEN Serialize(box.rec)
              ELSE SerializeSend(box.rec)]

\* Deserialize for Box<dyn Register>: the tag selects the decoder in the
\* registry; an unknown tag is an error.
DeserializeDyn(elem) ==
    LET r == CASE elem.tag = IbcastTag -> Deserialize(elem.body)
               [] elem.tag = SendTag -> DeserializeSend(elem.body)
               [] OTHER -> [ok |-> FALSE, err |-> "unknown variant"]
    IN  IF r.ok THEN [ok |-> TRUE, val |-> Box(elem.tag, r.val)] ELSE r

\* Serialize for the log: a sequence, element by element.
SerializeLog(log) == [i \in 1..Len(log) |-> SerializeDyn(log[i])]

RECURSIVE DeserializeSeq(_, _, _)
\* Deserialize for the log: element by element, stopping at the first error.
DeserializeSeq(elems, i, acc) ==
    IF i > Len(elems) THEN [ok |-> TRUE, val |-> acc]
    ELSE LET r == DeserializeDyn(elems[i])
         IN  IF r.ok THEN DeserializeSeq(elems, i + 1, Append(acc, r.val))
             ELSE [ok |-> FALSE, err |-> r.err, at |-> i]

DeserializeLog(elems) == DeserializeSeq(elems, 1, <<>>)

\* The caller constructs a record of the second shape.
CallNewSend ==
    /\ ~aborted
    /\ \E cr \in FieldVals("current_rank") :
          held' = <<NewSend(cr, 8, 1024)>>
    /\ heldVia' = "new"
    /\ lastOp' = "new"
    /\ UNCHANGED <<logVars, builderVars, serdeVars, streamVars>>

\* register of the second shape, the reservation and the push succeed.
RegisterSendOk ==
    /\ ~aborted /\ held # <<>> /\ IsSend(held[1]) /\ Len(events) < MaxLen
    /\ Reserved.ok
    /\ LET p == PushCap(Reserved.cap, Len(events), ceiling)
       IN  /\ p.ok
           /\ cap' = p.cap
           /\ call' = [Seen(held[1]) EXCEPT !.grew = p.grew]
    /\ events' = Pushed(events, Box(SendTag, held[1]))
    /\ okArgs' = Append(okArgs, held[1])
    /\ result' = "Ok"
    /\ held' = <<>>
    /\ heldVia' = "none"
    /\ lastOp' = "register"
    /\ UNCHANGED <<ceiling, aborted>>
    /\ UNCHANGED <<builderVars, serdeVars, streamVars>>

\* The owner of the log serializes it.
CallSerializeLog ==
    /\ ~aborted
    /\ stream' = SerializeLog(events)
    /\ streamFrom' = events
    /\ decodedLog' = <<>>
    /\ lastOp' = "serializeLog"
    /\ UNCHANGED <<held, heldVia, logVars, builderVars, serdeVars>>

\* A reader deserializes the stream as a Vec<Box<dyn Register>>.
CallDeserializeLog ==
    /\ ~aborted
    /\ lastOp = "serializeLog"
    /\ decodedLog' = <<DeserializeLog(stream)>>
    /\ lastOp' = "deserializeLog"
    /\ UNCHANGED <<stream, streamFrom>>
    /\ UNCHANGED <<held, heldVia, logVars, builderVars, serdeVars>>

----------------------------------------------------------------------------
(* Specification of the event log *)

NoCall == [events |-> <<>>, cap |-> 0, rec |-> <<>>, additional |-> 0, grew |-> FALSE]

InitRest ==
    /\ aborted = FALSE
    /\ held = <<>>
    /\ heldVia = "none"
    /\ result = "none"
    /\ lastOp = "init"
    /\ call = NoCall
    /\ okArgs = <<>>
    /\ builder = EmptyBuilder
    /\ supplied = EmptyBuilder
    /\ built = <<>>
    /\ lastSet = <<>>
    /\ wire = <<>>
    /\ encodedFrom = <<>>
    /\ decoded = <<>>
    /\ stream = <<>>
    /\ streamFrom = <<>>
    /\ decodedLog = <<>>

\* The log starts empty; its owner created it with some capacity the
\* allocator granted.
Init ==
    /\ events = <<>>
    /\ ceiling \in 0..MaxCeiling
    /\ cap \in 0..MaxInitCap
    /\ cap <= ceiling
    /\ InitRest

Next ==
    \/ CallNew
    \/ RegisterOk
    \/ RegisterErr
    \/ RegisterAbort

Spec == Init /\ [][Next]_vars

----------------------------------------------------------------------------
(* Specification of the record: construction and encoding *)

InitRecord ==
    /\ events = <<>>
    /\ ceiling = 0
    /\ cap = 0
    /\ InitRest

NextRecord ==
    \/ CallNew
    \/ CallSetter
    \/ CallBuild
    \/ CallSerialize
    \/ CallDeserialize

SpecRecord == InitRecord /\ [][NextRecord]_vars

----------------------------------------------------------------------------
(* Specification of the heterogeneous log and its encoding; the allocator  *)
(* grants every request the bounded log can make.                          *)

InitStream ==
    /\ events = <<>>
    /\ ceiling = 3 * MaxLen + 4
    /\ cap = 0
    /\ InitRest

NextStream ==
    \/ (Len(events) < MaxStream /\ CallNew)
    \/ (Len(events) < MaxStream /\ CallNewSend)
    \/ RegisterOk
    \/ RegisterSendOk
    \/ CallSerializeLog
    \/ CallDeserializeLog

SpecStream == InitStream /\ [][NextStream]_vars

----------------------------------------------------------------------------
(* Properties *)

AfterRegister(r) == lastOp = "register" /\ result = r

LenBefore == Len(call.events)

\* C1: a successful register makes the record the last element, lengthens
\* the log by exactly one and leaves the earlier records as they were, in
\* their order; so the log, empty at first, holds exactly the records of the
\* successful registers, in call order.
C1_RegisterAppends ==
    /\ AfterRegister("Ok") =>
          /\ Len(events) = LenBefore + 1
          /\ events[Len(events)] = Box(IbcastTag, call.rec)
          /\ SubSeq(events, 1, LenBefore) = call.events
    /\ Len(events) = Len(okArgs)
    /\ \A i \in 1..Len(events) : events[i] = Box(IbcastTag, okArgs[i])

C1_Witness ==
    /\ AfterRegister("Ok")
    /\ Len(events) = 3
    /\ events[1] # events[2]
    /\ events[2] # events[3]

\* C2: a register that fails with an allocation error leaves the log as it
\* was: same length, same records in the same order, nothing pushed.
C2_FailedRegisterLeavesLog ==
    AfterRegister("Err") =>
        /\ Len(events) = LenBefore
        /\ events = call.events
        /\ cap = call.cap
        /\ Len(okArgs) = LenBefore

C2_Witness == AfterRegister("Err") /\ Len(events) = 2 /\ events[1] # events[2]

\* C3 as stated: register asks for extra capacity equal to the length n of the
\* log and returns an allocation error exactly when n + n exceeds the ceiling.
C3_Original ==
    lastOp = "register" =>
        /\ call.additional = LenBefore
        /\ (result = "Err") <=> (LenBefore + LenBefore > ceiling)

\* C3, amended: register asks for extra capacity equal to twice the length n
\* of the log and returns an allocation error exactly when n + 2n exceeds the
\* ceiling; never for an empty log, whose request is for no extra capacity.
C3_ErrIffTripleExceeds ==
    lastOp = "register" =>
        /\ call.additional = 2 * LenBefore
        /\ (result = "Err") <=> (LenBefore + call.additional > ceiling)
        /\ (LenBefore = 0) => (call.additional = 0 /\ result # "Err")

\* An error although the double of the length is within the ceiling.
C3_Witness ==
    /\ AfterRegister("Err")
    /\ LenBefore + LenBefore <= ceiling
    /\ LenBefore + call.additional > ceiling

\* C4: register never aborts the process: whenever the storage the new record
\* needs cannot be had, register returns an allocation error, and the push
\* that follows a successful reservation never meets a refused allocation.
C4_RegisterNeverAborts ==
    /\ ~aborted
    /\ lastOp = "register" => result \in {"Ok", "Err"}

\* C5 as stated: after a register that failed with an allocation error the
\* caller still holds the record.
C5_Original == AfterRegister("Err") => held = <<call.rec>>

\* C5, amended: register takes the record by value, so after a register that
\* failed with an allocation error the caller holds nothing and the record is
\* not in the log either; the log is as it was before the call.
C5_FailedRegisterConsumesRecord ==
    AfterRegister("Err") =>
        /\ held = <<>>
        /\ heldVia = "none"
        /\ events = call.events

C5_Witness ==
    /\ AfterRegister("Err")
    /\ held = <<>>
    /\ \A i \in 1..Len(events) : events[i].rec # call.rec

\* The values the setters were last called with, as arguments of new.
NewOfSupplied ==
    New(supplied.current_rank[1], supplied.root_rank[1], supplied.nb_bytes[1],
        supplied.comm[1], supplied.req[1], supplied.tsc[1],
        supplied.duration[1])

\* C6: whatever the order of the setter calls, the record build() returns
\* equals the record new() makes of the same seven values.
C6_BuildEqualsNew ==
    (lastOp = "build" /\ built[1].ok) =>
        /\ built[1].val = NewOfSupplied
        /\ held = <<NewOfSupplied>>

\* A build of two different ranks, the first field being the one set last.
C6_Witness ==
    /\ lastOp = "build"
    /\ built[1].ok
    /\ built[1].val.current_rank # built[1].val.root_rank
    /\ lastSet = <<"current_rank">>

\* C7: build() fails with a missing-field error exactly when the setter of
\* at least one of the seven fields was never called; a failure carries no
\* record, a success carries one.
C7_BuildFailsIffFieldMissing ==
    lastOp = "build" =>
        /\ ~built[1].ok <=> (\E f \in Fields : supplied[f] = <<>>)
        /\ ~built[1].ok =>
              /\ DOMAIN built[1] = {"ok", "err"}
              /\ supplied[built[1].err] = <<>>
        /\ built[1].ok => DOMAIN built[1] = {"ok", "val"}

\* A failed build with all fields but the last one set.
C7_Witness ==
    /\ lastOp = "build"
    /\ ~built[1].ok
    /\ {f \in Fields : supplied[f] = <<>>} = {"duration"}

\* C8: decoding the encoding of a record gives back an equal record.
C8_RoundTrip ==
    lastOp = "deserialize" =>
        /\ decoded[1].ok
        /\ decoded[1].val = encodedFrom[1]

C8_Witness ==
    /\ lastOp = "deserialize"
    /\ decoded[1].ok
    /\ decoded[1].val.current_rank # decoded[1].val.root_rank
    /\ decoded[1].val.tsc = 1024

\* The encoding the test `serializes` expects.
SerializesExpected ==
    << [name |-> "current_rank", text |-> <<0>>],
       [name |-> "root_rank", text |-> <<0>>],
       [name |-> "nb_bytes", text |-> <<8>>],
       [name |-> "comm", text |-> <<0>>],
       [name |-> "req", text |-> <<7>>],
       [name |-> "tsc", text |-> <<1, 0, 2, 4>>],
       [name |-> "duration", text |-> <<2, 0, 4, 8>>] >>

\* C9: the encoding of a record is the sequence of its seven entries in the
\* order current_rank, root_rank, nb_bytes, comm, req, tsc, duration, each
\* with its field's value, whether the record came from new() or from the
\* builder.
C9_FixedFieldOrder ==
    lastOp = "serialize" =>
        /\ Len(wire) = Len(FieldOrder)
        /\ \A i \in 1..Len(FieldOrder) :
              /\ wire[i].name = FieldOrder[i]
              /\ Number(wire[i].text) = encodedFrom[1][FieldOrder[i]]
        /\ encodedFrom[1] = New(0, 0, 8, 0, 7, 1024, 2048) =>
              wire = SerializesExpected

\* An encoding of a record that came from the builder, set in another order
\* than the declaration's.
C9_Witness ==
    /\ lastOp = "serialize"
    /\ heldVia = "build"
    /\ lastSet = <<"root_rank">>
    /\ encodedFrom[1].current_rank # encodedFrom[1].root_rank

\* C10: a serialized log of records of two shapes, each under its tag,
\* decodes to the original sequence: same length, same order, each element
\* of the shape its tag names, with equal fields.
C10_HeterogeneousRoundTrip ==
    lastOp = "deserializeLog" =>
        /\ decodedLog[1].ok
        /\ Len(decodedLog[1].val) = Len(streamFrom)
        /\ \A i \in 1..Len(streamFrom) :
              /\ decodedLog[1].val[i].tag = streamFrom[i].tag
              /\ decodedLog[1].val[i].rec = streamFrom[i].rec
              /\ (stream[i].tag = IbcastTag) <=> IsIbcast(decodedLog[1].val[i].rec)

C10_Witness ==
    /\ lastOp = "deserializeLog"
    /\ decodedLog[1].ok
    /\ Len(streamFrom) = 3
    /\ streamFrom[1].tag = IbcastTag
    /\ streamFrom[2].tag = SendTag
    /\ streamFrom[3].tag = IbcastTag

====
